---- MODULE Spec2Model ----
(***************************************************************************)
(* Model of cost-report/function.py: the daily Azure cost report.          *)
(*                                                                         *)
(* A CostTable (a Python dict of dicts, insertion ordered) is a sequence   *)
(* of [date, rgs] records; rgs is a sequence of [rg, cost] records.  The   *)
(* position in the sequence is the dict's iteration order.                 *)
(*                                                                         *)
(* Costs are exact decimals counted in thousandths (125 is 0.125).  The    *)
(* cost values of the model are multiples of 0.125, which binary floating  *)
(* point represents exactly, so round(x, 2) and the .2f format round them  *)
(* half-to-even as Python does.                                            *)
(*                                                                         *)
(* A dict key is [kind, n, s]: an int key (kind "int", value n) as the     *)
(* billing API returns it, or a str key (kind "str", characters s) as      *)
(* convert_date_data produces it.                                          *)
(***************************************************************************)
EXTENDS Integers, Sequences, FiniteSets, TLC

VARIABLES pc, rows, table, arg, blocks, err, hist, queries, posts, response

vars == <<pc, rows, table, arg, blocks, err, hist, queries, posts, response>>

(***************************************************************************)
(* Bounds of the model.                                                    *)
(***************************************************************************)
MaxRows == 2
MaxCalls == 2

(***************************************************************************)
(* Characters and strings.                                                 *)
(***************************************************************************)
AsciiOrder == <<" ", "/", "0", "1", "2", "3", "4", "5", "6", "7", "8", "9">>

Ord(c) == CHOOSE i \in 1..Len(AsciiOrder) : AsciiOrder[i] = c

DigitChars == <<"0", "1", "2", "3", "4", "5", "6", "7", "8", "9">>

IsDigit(c) == \E i \in 1..10 : DigitChars[i] = c

DigitVal(c) == (CHOOSE i \in 1..10 : DigitChars[i] = c) - 1

RECURSIVE Str(_)
Str(n) == IF n < 10 THEN <<DigitChars[n + 1]>>
          ELSE Str(n \div 10) \o <<DigitChars[(n % 10) + 1]>>

RECURSIVE StrLess(_, _)
StrLess(a, b) ==
  IF Len(b) = 0 THEN FALSE
  ELSE IF Len(a) = 0 THEN TRUE
  ELSE IF Head(a) = Head(b) THEN StrLess(Tail(a), Tail(b))
  ELSE Ord(Head(a)) < Ord(Head(b))

IntKey(n) == [kind |-> "int", n |-> n, s |-> <<>>]

StrKey(s) == [kind |-> "str", n |-> 0, s |-> s]

KeyStr(k) == IF k.kind = "int" THEN Str(k.n) ELSE k.s

KeyLess(a, b) == IF a.kind = "int" THEN a.n < b.n ELSE StrLess(a.s, b.s)

(***************************************************************************)
(* Dicts as association sequences.                                         *)
(***************************************************************************)
HasDate(t, k) == \E i \in 1..Len(t) : t[i].date = k

DateIdx(t, k) == CHOOSE i \in 1..Len(t) : t[i].date = k

HasRg(e, name) == \E i \in 1..Len(e) : e[i].rg = name

RgIdx(e, name) == CHOOSE i \in 1..Len(e) : e[i].rg = name

SetRg(e, name, c) ==
  IF HasRg(e, name)
  THEN [e EXCEPT ![RgIdx(e, name)] = [rg |-> name, cost |-> c]]
  ELSE Append(e, [rg |-> name, cost |-> c])

SetDate(t, k, e) ==
  IF HasDate(t, k)
  THEN [t EXCEPT ![DateIdx(t, k)] = [date |-> k, rgs |-> e]]
  ELSE Append(t, [date |-> k, rgs |-> e])

GetRg(e, name, default) == IF HasRg(e, name) THEN e[RgIdx(e, name)].cost ELSE default

TotalKey == "Total Daily Cost"

NoNameKey == "No Resource Group Name"

(***************************************************************************)
(* get_cost_and_usage: the billing query and the row loop.                 *)
(* A row is <<row[0], row[1], row[2]>> = <<cost token, date, group name>>. *)
(***************************************************************************)
CanFloat(tok) == tok \in {"0.125", "5.0"}

Float(tok) == IF tok = "0.125" THEN 125 ELSE 5000

RowRgName(row) == IF row[3] = "" THEN NoNameKey ELSE row[3]

AddRow(t, row) ==
  LET date == row[2]
      cost == Float(row[1])
      rg_name == RowRgName(row)
      t1 == IF HasDate(t, date) THEN t ELSE Append(t, [date |-> date, rgs |-> <<>>])
      i == DateIdx(t1, date)
  IN [t1 EXCEPT ![i].rgs = SetRg(t1[i].rgs, rg_name, cost)]

RECURSIVE ProcessRows(_, _)
ProcessRows(rs, t) ==
  IF rs = <<>> THEN [table |-> t, raised |-> FALSE]
  ELSE IF ~CanFloat(Head(rs)[1]) THEN [table |-> t, raised |-> TRUE]
  ELSE ProcessRows(Tail(rs), AddRow(t, Head(rs)))

\* Mutant of get_cost_and_usage: a failure discards the rows already processed.
get_cost_and_usage_reset(resp) ==
  LET r == ProcessRows(resp.rows, <<>>)
  IN IF resp.raises \/ r.raised THEN [table |-> <<>>, raised |-> TRUE] ELSE r

get_cost_and_usage(resp) ==
  IF resp.raises THEN [table |-> <<>>, raised |-> TRUE]
  ELSE ProcessRows(resp.rows, <<>>)

(***************************************************************************)
(* sort_cost_data: sorted() is stable, also with reverse=True.             *)
(***************************************************************************)
RECURSIVE InsertDesc(_, _)
InsertDesc(s, x) ==
  IF s = <<>> THEN <<x>>
  ELSE IF Head(s).cost >= x.cost THEN <<Head(s)>> \o InsertDesc(Tail(s), x)
  ELSE <<x>> \o s

RECURSIVE SortRgsUpTo(_, _)
SortRgsUpTo(e, n) == IF n = 0 THEN <<>> ELSE InsertDesc(SortRgsUpTo(e, n - 1), e[n])

Reverse(s) == [i \in 1..Len(s) |-> s[Len(s) + 1 - i]]

RECURSIVE InsertAsc(_, _)
InsertAsc(s, x) ==
  IF s = <<>> THEN <<x>>
  ELSE IF Head(s).cost <= x.cost THEN <<Head(s)>> \o InsertAsc(Tail(s), x)
  ELSE <<x>> \o s

RECURSIVE SortAscUpTo(_, _)
SortAscUpTo(e, n) == IF n = 0 THEN <<>> ELSE InsertAsc(SortAscUpTo(e, n - 1), e[n])

\* Mutant of SortedRgs: sorts ascending and reverses, which turns ties around.
SortedRgsReversed(e) == Reverse(SortAscUpTo(e, Len(e)))

SortedRgs(e) == SortRgsUpTo(e, Len(e))

RECURSIVE InsertDate(_, _)
InsertDate(s, x) ==
  IF s = <<>> THEN <<x>>
  ELSE IF KeyLess(x.date, Head(s).date) THEN <<x>> \o s
  ELSE <<Head(s)>> \o InsertDate(Tail(s), x)

RECURSIVE SortDatesUpTo(_, _)
SortDatesUpTo(t, n) == IF n = 0 THEN <<>> ELSE InsertDate(SortDatesUpTo(t, n - 1), t[n])

SortedDates(t) == SortDatesUpTo(t, Len(t))

sort_cost_data(t) ==
  LET byDate == SortedDates(t)
  IN [i \in 1..Len(byDate) |->
        [date |-> byDate[i].date, rgs |-> SortedRgs(byDate[i].rgs)]]

(***************************************************************************)
(* convert_date_data: strptime(str(date), '%Y%m%d').strftime('%d/%m/%Y').  *)
(* strptime compiles the format to the regular expression                  *)
(*   (\d\d\d\d)(1[0-2]|0[1-9]|[1-9])(3[0-1]|[1-2]\d|0[1-9]|[1-9]| [1-9])   *)
(* takes its first match from the start of the string, and raises if the   *)
(* match does not end where the string ends or the day is not in the month.*)
(***************************************************************************)
At(s, i) == IF i <= Len(s) THEN s[i] ELSE "$"

NonZeroDigit(c) == IsDigit(c) /\ c # "0"

MonthAlts(s, p) ==
  SelectSeq(<<[ok |-> At(s, p) = "1" /\ At(s, p + 1) \in {"0", "1", "2"}, len |-> 2],
              [ok |-> At(s, p) = "0" /\ NonZeroDigit(At(s, p + 1)), len |-> 2],
              [ok |-> NonZeroDigit(At(s, p)), len |-> 1]>>,
            LAMBDA a : a.ok)

DayAlts(s, q) ==
  SelectSeq(<<[ok |-> At(s, q) = "3" /\ At(s, q + 1) \in {"0", "1"}, len |-> 2],
              [ok |-> At(s, q) \in {"1", "2"} /\ IsDigit(At(s, q + 1)), len |-> 2],
              [ok |-> At(s, q) = "0" /\ NonZeroDigit(At(s, q + 1)), len |-> 2],
              [ok |-> NonZeroDigit(At(s, q)), len |-> 1],
              [ok |-> At(s, q) = " " /\ NonZeroDigit(At(s, q + 1)), len |-> 2]>>,
            LAMBDA a : a.ok)

RECURSIVE NumVal(_)
NumVal(s) == IF s = <<>> THEN 0 ELSE NumVal(SubSeq(s, 1, Len(s) - 1)) * 10 + DigitVal(s[Len(s)])

IsLeap(y) == y % 4 = 0 /\ (y % 100 # 0 \/ y % 400 = 0)

DaysInMonth(y, m) ==
  IF m = 2 THEN (IF IsLeap(y) THEN 29 ELSE 28)
  ELSE IF m \in {4, 6, 9, 11} THEN 30 ELSE 31

NoDate == [ok |-> FALSE, y |-> 0, m |-> 0, d |-> 0]

strptime(s) ==
  IF ~(\A i \in 1..4 : IsDigit(At(s, i))) THEN NoDate
  ELSE
    LET ms == SelectSeq(MonthAlts(s, 5), LAMBDA a : DayAlts(s, 5 + a.len) # <<>>)
    IN IF ms = <<>> THEN NoDate
       ELSE
         LET ml == ms[1].len
             dl == DayAlts(s, 5 + ml)[1].len
             y == NumVal(SubSeq(s, 1, 4))
             m == NumVal(SubSeq(s, 5, 4 + ml))
             d == NumVal(SubSeq(s, 5 + ml, 4 + ml + dl))
         IN IF 4 + ml + dl # Len(s) THEN NoDate
            ELSE IF y < 1 \/ d > DaysInMonth(y, m) THEN NoDate
            ELSE [ok |-> TRUE, y |-> y, m |-> m, d |-> d]

Pad2(n) == IF n < 10 THEN <<"0">> \o Str(n) ELSE Str(n)

strftime(dt) == Pad2(dt.d) \o <<"/">> \o Pad2(dt.m) \o <<"/">> \o Str(dt.y)

ConvertKey(k) == StrKey(strftime(strptime(KeyStr(k))))

RECURSIVE ConvertUpTo(_, _)
ConvertUpTo(t, n) ==
  IF n = 0 THEN <<>>
  ELSE SetDate(ConvertUpTo(t, n - 1), ConvertKey(t[n].date), t[n].rgs)

convert_date_data(t) ==
  IF \E i \in 1..Len(t) : ~strptime(KeyStr(t[i].date)).ok
  THEN [table |-> <<>>, raised |-> TRUE]
  ELSE [table |-> ConvertUpTo(t, Len(t)), raised |-> FALSE]

(***************************************************************************)
(* add_total_cost.                                                         *)
(***************************************************************************)
\* round(x, 2) and format(x, '.2f'): to hundredths, ties to even.
Round2(x) ==
  LET q == x \div 10
      r == x % 10
  IN IF r < 5 THEN q * 10
     ELSE IF r > 5 THEN (q + 1) * 10
     ELSE IF q % 2 = 0 THEN q * 10 ELSE (q + 1) * 10

RECURSIVE SumCosts(_)
SumCosts(e) == IF e = <<>> THEN 0 ELSE SumCosts(SubSeq(e, 1, Len(e) - 1)) + e[Len(e)].cost

add_total_cost(t) ==
  [i \in 1..Len(t) |->
     [date |-> t[i].date, rgs |-> SetRg(t[i].rgs, TotalKey, Round2(SumCosts(t[i].rgs)))]]

(***************************************************************************)
(* format_slack_message.  Every block is [type, fields, text]; a block     *)
(* without fields or text has <<>> there.  A rendered number is the        *)
(* number of thousandths it shows.                                         *)
(***************************************************************************)
TopN == 5

NoKey == StrKey(<<>>)

Fmt2f(x) == Round2(x)

HeaderBlock ==
  [type |-> "header", title |-> "Azure Daily Cost Report", fields |-> <<>>, text |-> <<>>]

DividerBlock == [type |-> "divider", title |-> "", fields |-> <<>>, text |-> <<>>]

DateField(date) == [label |-> "Date", date |-> date, sign |-> "", value |-> 0, emoji |-> ""]

TotalField(cost) ==
  [label |-> "Total Cost", date |-> NoKey, sign |-> "", value |-> cost, emoji |-> ""]

\* Mutant of DiffField: an unchanged total is not marked as an increase.
DiffFieldStrict(diff) ==
  [label |-> "Daily Difference",
   date |-> NoKey,
   sign |-> IF diff > 0 THEN "+" ELSE "",
   value |-> Fmt2f(diff),
   emoji |-> IF diff > 0 THEN ":large_red_square:" ELSE ":large_green_square:"]

DiffField(diff) ==
  [label |-> "Daily Difference",
   date |-> NoKey,
   sign |-> IF diff >= 0 THEN "+" ELSE "",
   value |-> Fmt2f(diff),
   emoji |-> IF diff >= 0 THEN ":large_red_square:" ELSE ":large_green_square:"]

Costs(t) == [i \in 1..Len(t) |-> GetRg(t[i].rgs, TotalKey, 0)]

FieldsOf(t, i) ==
  LET costs == Costs(t)
      fields == <<DateField(t[i].date), TotalField(costs[i])>>
  IN IF i > 1 THEN Append(fields, DiffField(costs[i] - costs[i - 1])) ELSE fields

TopOf(e) ==
  LET first == SubSeq(e, 1, IF Len(e) < TopN THEN Len(e) ELSE TopN)
  IN [j \in 1..Len(first) |-> [rg |-> first[j].rg, value |-> Fmt2f(first[j].cost)]]

FieldsSection(t, i) ==
  [type |-> "section", title |-> "", fields |-> FieldsOf(t, i), text |-> <<>>]

TopSection(e) ==
  [type |-> "section", title |-> "Top 5 Resource Group Costs:", fields |-> <<>>,
   text |-> TopOf(e)]

RECURSIVE BlocksUpTo(_, _)
BlocksUpTo(t, n) ==
  IF n = 0 THEN <<HeaderBlock, DividerBlock>>
  ELSE BlocksUpTo(t, n - 1) \o <<FieldsSection(t, n), TopSection(t[n].rgs), DividerBlock>>

\* Mutant of format_slack_message: dividers only between the dates.
format_divider_between(t) ==
  IF Len(t) = 0 THEN BlocksUpTo(t, 0)
  ELSE SubSeq(BlocksUpTo(t, Len(t)), 1, 1 + 3 * Len(t))

format_slack_message(t) == BlocksUpTo(t, Len(t))

(***************************************************************************)
(* send_slack_message.                                                     *)
(***************************************************************************)
StatusOK == 200

NoErr == [type |-> "", status |-> 0, body |-> ""]

send_slack_message(r) ==
  IF r.status_code # StatusOK
  THEN [type |-> "ValueError", status |-> r.status_code, body |-> r.text]
  ELSE NoErr

(***************************************************************************)
(* The inputs of the model: what the billing API and the webhook answer.   *)
(***************************************************************************)
DateKeys == {IntKey(20240101), IntKey(20240102), IntKey(2024011), IntKey(20240230)}

CostTokens == {"0.125", "5.0"}

RgNames == {"rg-a", "", TotalKey}

GoodRows == CostTokens \X DateKeys \X RgNames

BadRow == <<"n/a", IntKey(20240101), "rg-a">>

ApiRows == GoodRows \cup {BadRow}

SeqsUpTo(S, n) == UNION {[1..k -> S] : k \in 0..n}

Responses ==
  {[raises |-> TRUE, rows |-> <<>>]}
    \cup {[raises |-> FALSE, rows |-> rs] : rs \in SeqsUpTo(ApiRows, MaxRows)}

Tables == {ProcessRows(rs, <<>>).table : rs \in SeqsUpTo(GoodRows, MaxRows)}

Statuses == {200, 204, 404, 500}

Bodies == {"ok", "no_service"}

HttpResponses == [status_code : Statuses, text : Bodies]

NoResponse == [status_code |-> 0, text |-> ""]

(***************************************************************************)
(* main: one invocation, stage by stage.                                   *)
(***************************************************************************)
Init ==
  /\ pc = "start"
  /\ rows = [raises |-> FALSE, rows |-> <<>>]
  /\ table = <<>>
  /\ arg = <<>>
  /\ blocks = <<>>
  /\ err = NoErr
  /\ hist = <<>>
  /\ queries = 0
  /\ posts = 0
  /\ response = NoResponse

\* Lines 148-152: the credential, the client and the three environment reads.
Configure ==
  /\ pc = "start"
  /\ \E ok \in BOOLEAN :
       IF ok THEN pc' = "configured" /\ err' = NoErr
       ELSE pc' = "failed" /\ err' = [type |-> "KeyError", status |-> 0, body |-> ""]
  /\ UNCHANGED <<rows, table, arg, blocks, hist, queries, posts, response>>

\* Mutant of Fetch: a failed query is issued a second time.
FetchRetry ==
  /\ pc = "configured"
  /\ \E resp \in Responses :
       /\ rows' = resp
       /\ table' = get_cost_and_usage(resp).table
       /\ queries' = queries + (IF get_cost_and_usage(resp).raised THEN 2 ELSE 1)
  /\ arg' = table
  /\ hist' = Append(hist, "fetch")
  /\ pc' = "fetched"
  /\ UNCHANGED <<blocks, err, posts, response>>

Fetch ==
  /\ pc = "configured"
  /\ \E resp \in Responses :
       /\ rows' = resp
       /\ table' = get_cost_and_usage(resp).table
  /\ queries' = queries + 1
  /\ arg' = table
  /\ hist' = Append(hist, "fetch")
  /\ pc' = "fetched"
  /\ UNCHANGED <<blocks, err, posts, response>>

Sort ==
  /\ pc = "fetched"
  /\ table' = sort_cost_data(table)
  /\ arg' = table
  /\ hist' = Append(hist, "sort")
  /\ pc' = "sorted"
  /\ UNCHANGED <<rows, blocks, err, queries, posts, response>>

Convert ==
  /\ pc = "sorted"
  /\ LET r == convert_date_data(table)
     IN IF r.raised
        THEN /\ pc' = "failed"
             /\ err' = [type |-> "ValueError", status |-> 0, body |-> "strptime"]
             /\ table' = table
        ELSE /\ pc' = "converted"
             /\ err' = err
             /\ table' = r.table
  /\ arg' = table
  /\ hist' = Append(hist, "convert")
  /\ UNCHANGED <<rows, blocks, queries, posts, response>>

Total ==
  /\ pc = "converted"
  /\ table' = add_total_cost(table)
  /\ arg' = table
  /\ hist' = Append(hist, "total")
  /\ pc' = "totalled"
  /\ UNCHANGED <<rows, blocks, err, queries, posts, response>>

Render ==
  /\ pc = "totalled"
  /\ blocks' = format_slack_message(table)
  /\ arg' = table
  /\ hist' = Append(hist, "render")
  /\ pc' = "rendered"
  /\ UNCHANGED <<rows, table, err, queries, posts, response>>

Deliver ==
  /\ pc = "rendered"
  /\ posts' = posts + 1
  /\ hist' = Append(hist, "deliver")
  /\ \/ \E r \in HttpResponses :
          /\ response' = r
          /\ err' = send_slack_message(r)
          /\ pc' = IF err' = NoErr THEN "done" ELSE "failed"
     \/ /\ response' = NoResponse
        /\ err' = [type |-> "ConnectionError", status |-> 0, body |-> ""]
        /\ pc' = "failed"
  /\ UNCHANGED <<rows, table, arg, blocks, queries>>

Next == Configure \/ Fetch \/ Sort \/ Convert \/ Total \/ Render \/ Deliver

Spec == Init /\ [][Next]_vars

(***************************************************************************)
(* The functions one by one: a caller holding any table the fetcher can    *)
(* build applies up to MaxCalls of them, each to the result of the last.   *)
(***************************************************************************)
InitFn ==
  /\ pc = "fn"
  /\ rows = [raises |-> FALSE, rows |-> <<>>]
  /\ table \in Tables
  /\ arg = <<>>
  /\ blocks = <<>>
  /\ err = NoErr
  /\ hist = <<>>
  /\ queries = 0
  /\ posts = 0
  /\ response = NoResponse

CanCall == pc = "fn" /\ Len(hist) < MaxCalls /\ err = NoErr

CallSort ==
  /\ CanCall
  /\ table' = sort_cost_data(table)
  /\ arg' = table
  /\ hist' = Append(hist, "sort")
  /\ UNCHANGED <<pc, rows, blocks, err, queries, posts, response>>

CallConvert ==
  /\ CanCall
  /\ LET r == convert_date_data(table)
     IN IF r.raised
        THEN /\ err' = [type |-> "ValueError", status |-> 0, body |-> "strptime"]
             /\ table' = table
        ELSE /\ err' = err
             /\ table' = r.table
  /\ arg' = table
  /\ hist' = Append(hist, "convert")
  /\ UNCHANGED <<pc, rows, blocks, queries, posts, response>>

CallTotal ==
  /\ CanCall
  /\ table' = add_total_cost(table)
  /\ arg' = table
  /\ hist' = Append(hist, "total")
  /\ UNCHANGED <<pc, rows, blocks, err, queries, posts, response>>

CallFormat ==
  /\ CanCall
  /\ blocks' = format_slack_message(table)
  /\ arg' = table
  /\ hist' = Append(hist, "render")
  /\ UNCHANGED <<pc, rows, table, err, queries, posts, response>>

NextFn == CallSort \/ CallConvert \/ CallTotal \/ CallFormat

FnSpec == InitFn /\ [][NextFn]_vars

(***************************************************************************)
(* Vocabulary of the properties.                                           *)
(***************************************************************************)
LastCall == IF hist = <<>> THEN "" ELSE hist[Len(hist)]

Dates(t) == {t[i].date : i \in 1..Len(t)}

Entries(e) == {e[j] : j \in 1..Len(e)}

RealEntries(e) == SelectSeq(e, LAMBDA x : x.rg # TotalKey)

TotalOf(e) == IF \E j \in 1..Len(e) : e[j].rg = TotalKey
              THEN (CHOOSE x \in Entries(e) : x.rg = TotalKey).cost
              ELSE 0

Pos(e, x) == CHOOSE j \in 1..Len(e) : e[j] = x

Stages == <<"fetch", "sort", "convert", "total", "render", "deliver">>

IsPrefix(a, b) == Len(a) <= Len(b) /\ a = SubSeq(b, 1, Len(a))

\* What the claims call a valid 8-digit date, and its display form.
IsYYYYMMDD(s) ==
  /\ Len(s) = 8
  /\ \A i \in 1..8 : IsDigit(s[i])
  /\ NumVal(SubSeq(s, 1, 4)) >= 1
  /\ NumVal(SubSeq(s, 5, 6)) \in 1..12
  /\ NumVal(SubSeq(s, 7, 8)) \in 1..DaysInMonth(NumVal(SubSeq(s, 1, 4)), NumVal(SubSeq(s, 5, 6)))

DDMMYYYY(s) == StrKey(SubSeq(s, 7, 8) \o <<"/">> \o SubSeq(s, 5, 6) \o <<"/">> \o SubSeq(s, 1, 4))

\* The failure of the fetch, read off the response it was given.
FetchFailed == rows.raises \/ \E j \in 1..Len(rows.rows) : ~CanFloat(rows.rows[j][1])

RowsBeforeFailure ==
  IF rows.raises THEN <<>>
  ELSE LET bad == {j \in 1..Len(rows.rows) : ~CanFloat(rows.rows[j][1])}
           first == CHOOSE j \in bad : \A k \in bad : j <= k
       IN SubSeq(rows.rows, 1, first - 1)

\* Row j of P is the last row of P for its date and group.
LastOfItsKey(P, j) ==
  ~\E k \in 1..Len(P) : k > j /\ P[k][2] = P[j][2] /\ RowRgName(P[k]) = RowRgName(P[j])

\* What C9 states apart from the number of billing queries.
Ended == pc \in {"done", "failed"}

C9_OrderAndCounts ==
  /\ IsPrefix(hist, Stages)
  /\ queries <= 1
  /\ posts <= 1
  /\ posts = 1 => (hist = Stages /\ err.type # "KeyError" /\ err.body # "strptime")
  /\ hist = Stages => (posts = 1 /\ blocks = format_slack_message(table))
  /\ err.body = "strptime" => (Ended /\ posts = 0)

(***************************************************************************)
(* C1: sort_cost_data returns the same dates with the same (resource       *)
(* group, cost) entries as its input; the dates iterate in ascending order *)
(* of their raw key, the costs of a date are non-increasing, and entries   *)
(* of equal cost keep the order they had in the input.                     *)
(***************************************************************************)
C1_SortContract ==
  LastCall = "sort" =>
    /\ Len(table) = Len(arg)
    /\ Dates(table) = Dates(arg)
    /\ \A i, j \in 1..Len(table) : i < j => KeyLess(table[i].date, table[j].date)
    /\ \A i \in 1..Len(table) :
         LET out == table[i].rgs
             in == arg[DateIdx(arg, table[i].date)].rgs
         IN /\ Len(out) = Len(in)
            /\ Entries(out) = Entries(in)
            /\ \A j, k \in 1..Len(out) : j < k => out[j].cost >= out[k].cost
            /\ \A x, y \in Entries(in) :
                 (x.cost = y.cost /\ Pos(in, x) < Pos(in, y)) => Pos(out, x) < Pos(out, y)

C1_Witness ==
  /\ LastCall = "sort"
  /\ \E i \in 1..Len(arg) :
       /\ Len(arg[i].rgs) = 2
       /\ arg[i].rgs[1].cost = arg[i].rgs[2].cost
       /\ table[1].rgs = arg[i].rgs

(***************************************************************************)
(* C2: after add_total_cost, the "Total Daily Cost" of every date is the   *)
(* sum of the other entries of the date rounded to 2 decimals, also for a  *)
(* table that already holds a resource group named "Total Daily Cost".     *)
(***************************************************************************)
C2_TotalIsSumOfOthers ==
  LastCall = "total" =>
    \A i \in 1..Len(table) :
      TotalOf(table[i].rgs) = Round2(SumCosts(RealEntries(table[i].rgs)))

(***************************************************************************)
(* C3: convert_date_data maps distinct date keys to distinct display keys, *)
(* maps every valid 8-digit YYYYMMDD key to DD/MM/YYYY, and raises on      *)
(* every key that is not a valid 8-digit date.                             *)
(***************************************************************************)
C3_ConvertBijection ==
  LastCall = "convert" =>
    /\ err = NoErr <=> \A i \in 1..Len(arg) : IsYYYYMMDD(KeyStr(arg[i].date))
    /\ err = NoErr =>
         /\ Len(table) = Len(arg)
         /\ \A i \in 1..Len(arg) : table[i].date = DDMMYYYY(KeyStr(arg[i].date))

(***************************************************************************)
(* C4: for a table of n dates format_slack_message returns 2 + 3n blocks:  *)
(* the header, a divider, and per date in table order one fields section,  *)
(* one top-five text section and one divider; n + 1 dividers in all.       *)
(***************************************************************************)
C4_BlockLayout ==
  LastCall = "render" =>
    LET n == Len(arg)
    IN /\ Len(blocks) = 2 + 3 * n
       /\ blocks[1].type = "header"
       /\ blocks[2].type = "divider"
       /\ \A i \in 1..n :
            /\ blocks[3 * i].type = "section"
            /\ blocks[3 * i].fields # <<>>
            /\ blocks[3 * i].fields[1].date = arg[i].date
            /\ blocks[3 * i + 1].type = "section"
            /\ blocks[3 * i + 1].title = "Top 5 Resource Group Costs:"
            /\ blocks[3 * i + 1].fields = <<>>
            /\ blocks[3 * i + 2].type = "divider"
       /\ Cardinality({k \in 1..Len(blocks) : blocks[k].type = "divider"}) = n + 1
       /\ Cardinality({k \in 1..Len(blocks) : blocks[k].type = "header"}) = 1

C4_Witness == LastCall = "render" /\ Len(arg) = 2 /\ Len(blocks) = 8

(***************************************************************************)
(* C5: send_slack_message raises an error carrying the status code and the *)
(* response body exactly when the webhook answers with a non-2xx status;   *)
(* on every 2xx status it returns without raising.                         *)
(***************************************************************************)
C5_RaisesIffNotSuccess ==
  (LastCall = "deliver" /\ response # NoResponse) =>
    IF response.status_code \in 200..299
    THEN err = NoErr /\ pc = "done"
    ELSE /\ pc = "failed"
         /\ err.type = "ValueError"
         /\ err.status = response.status_code
         /\ err.body = response.text

C7_TopExcludesTotal ==
  hist = SubSeq(Stages, 1, 5) =>
    \A k \in 1..Len(blocks) : \A j \in 1..Len(blocks[k].text) : blocks[k].text[j].rg # TotalKey

(***************************************************************************)
(* C8: the fields section of the first date has exactly the two fields     *)
(* date and total cost; that of every later date i has a third field       *)
(* showing total(i) - total(i-1) against the date just before it in table  *)
(* order, with "+" and the red marker when the difference is >= 0 and the  *)
(* green marker when it is negative; a date without a "Total Daily Cost"   *)
(* entry counts as total 0.                                                *)
(***************************************************************************)
C8_DailyDifference ==
  LastCall = "render" =>
    \A i \in 1..Len(arg) :
      LET f == blocks[3 * i].fields
          diff == TotalOf(arg[i].rgs) - TotalOf(arg[i - 1].rgs)
      IN /\ f[1].label = "Date" /\ f[1].date = arg[i].date
         /\ f[2].label = "Total Cost" /\ f[2].value = TotalOf(arg[i].rgs)
         /\ i = 1 => Len(f) = 2
         /\ i > 1 =>
              /\ Len(f) = 3
              /\ f[3].label = "Daily Difference"
              /\ f[3].value = Fmt2f(diff)
              /\ diff >= 0 => (f[3].sign = "+" /\ f[3].emoji = ":large_red_square:")
              /\ diff < 0 => (f[3].sign = "" /\ f[3].emoji = ":large_green_square:")

C8_Witness ==
  /\ LastCall = "render"
  /\ Len(arg) = 2
  /\ ~HasRg(arg[2].rgs, TotalKey)
  /\ TotalOf(arg[1].rgs) > 0
  /\ blocks[6].fields[3].emoji = ":large_green_square:"

(***************************************************************************)
(* C9: in every invocation of main the stages run at most once each and in *)
(* the order fetch, sort, convert, total, render, deliver; exactly one     *)
(* billing query is issued and at most one webhook POST; the POST happens  *)
(* only after all earlier stages completed without raising (a date parse   *)
(* error ends the invocation without a POST); nothing is retried.          *)
(***************************************************************************)
C9_ExactlyOneQuery == C9_OrderAndCounts /\ (Ended => queries = 1)

(***************************************************************************)
(* C9 as amended: as above, but the billing query is issued exactly once   *)
(* only in an invocation that gets past its configuration (credential,     *)
(* client, environment reads); an invocation that fails there issues none. *)
(***************************************************************************)
C9_OneQueryOnceConfigured ==
  /\ C9_OrderAndCounts
  /\ Ended => (queries = IF err.type = "KeyError" THEN 0 ELSE 1)
  /\ queries = (IF hist = <<>> THEN 0 ELSE 1)

C9_Witness ==
  /\ pc = "failed"
  /\ err.body = "strptime"
  /\ hist = SubSeq(Stages, 1, 3)
  /\ queries = 1
  /\ posts = 0

(***************************************************************************)
(* C10: add_total_cost applied to a table it has already totalled sums the *)
(* "Total Daily Cost" entry with the resource groups, so that the total of *)
(* every date after the second run is twice the total after the first.     *)
(***************************************************************************)
C10_SecondRunDoubles ==
  hist = <<"total", "total">> =>
    \A i \in 1..Len(table) : TotalOf(table[i].rgs) = 2 * TotalOf(arg[i].rgs)

====
